---- MODULE Spec2Model ----
(***************************************************************************)
(* Compact_container_with_index_2<T, Allocator, Increment_policy>          *)
(* (Combinatorial_map/include/CGAL/Compact_container_with_index_2.h).      *)
(*                                                                         *)
(* One container object.  T is modelled as a class whose only member is    *)
(* the word Traits::size_t(e) that the container squats: while an element  *)
(* is used the word is the client's payload (top bit 0), while it is free  *)
(* the word is (FREE << nbbits_size_type_m1) | index of next free element. *)
(* size_type is an unsigned integer of W bits.                             *)
(***************************************************************************)
EXTENDS Integers, Sequences, FiniteSets, TLC

\* ---------------------------------------------------------------- bounds
W == 4                 \* number of bits of size_type in the model
MaxCapacity == 5       \* growth is not attempted beyond this capacity
MaxFirst == 2          \* largest Incr_policy::first_block_size tried
MaxIncr == 1           \* largest block_size_increment tried
MaxExtra == 1          \* reserve is asked for up to capacity_ + MaxExtra

NULL == 0
BaseAddrs == {100, 200}              \* addresses malloc/realloc may return

\* ------------------------------------------------- unsigned W-bit words
Pow2(n) == 2^n
MaxWord == Pow2(W) - 1               \* (size_type)-1
Word == 0..MaxWord

RECURSIVE BitAnd(_, _)
BitAnd(a, b) ==
  IF a = 0 \/ b = 0 THEN 0
  ELSE (IF a % 2 = 1 /\ b % 2 = 1 THEN 1 ELSE 0) + 2 * BitAnd(a \div 2, b \div 2)

RECURSIVE BitOr(_, _)
BitOr(a, b) ==
  IF a = 0 THEN b
  ELSE IF b = 0 THEN a
  ELSE (IF a % 2 = 1 \/ b % 2 = 1 THEN 1 ELSE 0) + 2 * BitOr(a \div 2, b \div 2)

BitNot(a) == MaxWord - a             \* ~a on W bits
Shl(a, n) == (a * Pow2(n)) % Pow2(W) \* a << n on W bits
Shr(a, n) == a \div Pow2(n)          \* a >> n

\* ------------------------------------------------------- bit squatting
USED == 0
FREE == 1

nbbits_size_type_m1 == W - 1
mask_type == MaxWord - (MaxWord \div 2)

static_type(e) == Shr(BitAnd(e, mask_type), nbbits_size_type_m1)

static_set_type(e, t) ==
  BitAnd(e, BitOr(BitNot(mask_type), Shl(t, nbbits_size_type_m1)))

static_get_val(e) == BitAnd(e, BitNot(mask_type))

static_set_val(v, t) == BitOr(v, Shl(t, nbbits_size_type_m1))

\* Payloads a client may store: the top bit of the word is 0 while the
\* element is alive (the extreme payloads: no bit set, every other bit set).
Values == {0, MaxWord \div 2}
DefaultT == 0                        \* value_type()
Garbage == {0, MaxWord}              \* contents of freshly allocated memory

\* ------------------------------------------------------ increment policy
\* Addition_size_policy<first, incr> and the constant policy (incr = 0),
\* the two policies the container declares as friends.
Policies ==
  [first : 1..MaxFirst, incr : 0..MaxIncr]

VARIABLES
  policy,      \* the Increment_policy template argument
  capacity_,   \* size_type capacity_
  size_,       \* size_type size_
  block_size,  \* size_type block_size
  free_list,   \* size_type free_list
  all_items,   \* pointer   all_items (NULL or the address of the buffer)
  mem,         \* the buffer all_items points to: index -> word of the element
  pc,          \* "ready", or "aborted" once the process has died
  live,        \* history: handle -> value, for handles issued and not erased
  hist,        \* history: handles issued since construction/clear, while no erase
  epoch,       \* history: "constructed"/"cleared" while no erase happened since, else "erased"
  last         \* history: the last call, its argument/result and its pre-state

vars == << policy, capacity_, size_, block_size, free_list, all_items, mem,
           pc, live, hist, epoch, last >>

\* The container's fields as one value, threaded through the member functions.
Self ==
  [ capacity_ |-> capacity_, size_ |-> size_, block_size |-> block_size,
    free_list |-> free_list, all_items |-> all_items, mem |-> mem ]

\* operator[] : CGAL_assertion(all_items!=NULL && i<capacity_)
index_ok(s, i) == s.all_items # NULL /\ i < s.capacity_
at(s, i) == s.mem[i]

type(s, e) == static_type(at(s, e))
is_used(s, i) == type(s, i) = USED
get_val(s, e) == static_get_val(at(s, e))

set_val(s, e, v, t) ==
  [s EXCEPT !.mem = [@ EXCEPT ![e] = static_set_val(v, t)]]

\* put_on_free_list that links the element without tagging it FREE
put_on_free_list_untagged(s, x) ==
  [set_val(s, x, s.free_list, USED) EXCEPT !.free_list = x]

put_on_free_list(s, x) ==
  [set_val(s, x, s.free_list, FREE) EXCEPT !.free_list = x]

\* Increment_policy::increase_size(*this)
increase_size(s, pol) ==
  [s EXCEPT !.block_size = @ + pol.incr]

\* a growth that allocates a new buffer without copying the old elements
reallocated_fresh(s, n, g) ==
  [i \in 0..(n - 1) |-> g]

\* malloc(n*sizeof(T)) / realloc(all_items, n*sizeof(T)) returning p:
\* realloc keeps the old elements, everything else is uninitialised (g).
reallocated(s, n, g) ==
  [i \in 0..(n - 1) |->
     IF s.all_items # NULL /\ i \in DOMAIN s.mem THEN s.mem[i] ELSE g]

\* the new elements put on the free list in ascending order
RECURSIVE mark_free_ascending(_, _, _)
mark_free_ascending(s, index, oldcapacity) ==
  IF index > oldcapacity
  THEN put_on_free_list(mark_free_ascending(s, index - 1, oldcapacity), index)
  ELSE s

\* the loop starting one element too low, leaving the top element alone
RECURSIVE mark_free_but_top(_, _, _)
mark_free_but_top(s, index, oldcapacity) ==
  IF index > oldcapacity
  THEN mark_free_but_top(IF index = s.capacity_ - 1 THEN s
                         ELSE put_on_free_list(s, index),
                         index - 1, oldcapacity)
  ELSE s

RECURSIVE mark_free(_, _, _)
mark_free(s, index, oldcapacity) ==
  IF index > oldcapacity
  THEN mark_free(put_on_free_list(s, index), index - 1, oldcapacity)
  ELSE s

\* the first new element put on the free list before the others, not after
allocate_new_block_first_first(s, pol, p, g) ==
  LET oldcapacity == s.capacity_
      s1 == [s EXCEPT !.capacity_ = @ + s.block_size]
      s2 == [s1 EXCEPT !.all_items = p,
                       !.mem = reallocated(s, s1.capacity_, g)]
      s3 == put_on_free_list(s2, oldcapacity)
      s4 == mark_free(s3, s3.capacity_ - 1, oldcapacity)
  IN increase_size(s4, pol)

allocate_new_block(s, pol, p, g) ==
  LET oldcapacity == s.capacity_
      s1 == [s EXCEPT !.capacity_ = @ + s.block_size]
      s2 == [s1 EXCEPT !.all_items = p,
                       !.mem = reallocated(s, s1.capacity_, g)]
      s3 == mark_free(s2, s2.capacity_ - 1, oldcapacity)
      s4 == put_on_free_list(s3, oldcapacity)
  IN increase_size(s4, pol)

\* the body of insert without ++size_
construct_at_head_uncounted(s, t) ==
  LET ret == s.free_list
      e1 == static_set_type(at(s, ret), USED)
      s1 == [s EXCEPT !.mem = [@ EXCEPT ![ret] = e1]]
      s2 == [s1 EXCEPT !.free_list = static_get_val(e1)]
      s3 == [s2 EXCEPT !.mem = [@ EXCEPT ![ret] = t]]
  IN [cc |-> s3, ret |-> ret]

\* The body shared by insert(t) and every emplace(args...), after the test
\* of free_list: t is the value the element is constructed with.  The result
\* is the container afterwards (cc) and the returned index (ret).
construct_at_head(s, t) ==
  LET ret == s.free_list
      e1 == static_set_type(at(s, ret), USED)
      s1 == [s EXCEPT !.mem = [@ EXCEPT ![ret] = e1]]
      s2 == [s1 EXCEPT !.free_list = static_get_val(e1)]
      s3 == [s2 EXCEPT !.mem = [@ EXCEPT ![ret] = t]]
  IN [cc |-> [s3 EXCEPT !.size_ = (@ + 1) % Pow2(W)], ret |-> ret]

\* insert that also grows when the free list is down to its last element
insert_eager(s, pol, t, p, g) ==
  construct_at_head(IF s.free_list = 0 \/ get_val(s, s.free_list) = 0
                    THEN allocate_new_block(s, pol, p, g)
                    ELSE s, t)

insert(s, pol, t, p, g) ==
  construct_at_head(IF s.free_list = 0 THEN allocate_new_block(s, pol, p, g)
                    ELSE s, t)

emplace(s, pol, t, p, g) ==
  construct_at_head(IF s.free_list = 0 THEN allocate_new_block(s, pol, p, g)
                    ELSE s, t)

\* init() without the emplace() that uses up index 0
init_unreserved(s, pol, p, g) ==
  [s EXCEPT !.block_size = pol.first, !.capacity_ = 0, !.size_ = 0,
            !.free_list = 0, !.all_items = NULL, !.mem = << >>]

\* init() without the final size_ = 0
init_counts_first(s, pol, p, g) ==
  LET s0 == [s EXCEPT !.block_size = pol.first, !.capacity_ = 0, !.size_ = 0,
                      !.free_list = 0, !.all_items = NULL, !.mem = << >>]
  IN emplace(s0, pol, DefaultT, p, g).cc

\* init() without block_size = Incr_policy::first_block_size
init_keeps_block_size(s, pol, p, g) ==
  LET s0 == [s EXCEPT !.block_size = IF @ = 0 THEN pol.first ELSE @,
                      !.capacity_ = 0, !.size_ = 0,
                      !.free_list = 0, !.all_items = NULL, !.mem = << >>]
  IN [emplace(s0, pol, DefaultT, p, g).cc EXCEPT !.size_ = 0]

\* init() overwrites every field of s, calls emplace() and resets size_.
init(s, pol, p, g) ==
  LET s0 == [s EXCEPT !.block_size = pol.first, !.capacity_ = 0, !.size_ = 0,
                      !.free_list = 0, !.all_items = NULL, !.mem = << >>]
  IN [emplace(s0, pol, DefaultT, p, g).cc EXCEPT !.size_ = 0]

\* erase that tags the element FREE but does not make it the free-list head
erase_unlinked(s, x) ==
  LET s1 == [s EXCEPT !.mem = [@ EXCEPT ![x] = 0]]
      s2 == set_val(s1, x, s1.free_list, FREE)
  IN [s2 EXCEPT !.size_ = @ - 1]

\* erase that links the element with a null next index
erase_zero_next(s, x) ==
  LET s1 == [s EXCEPT !.mem = [@ EXCEPT ![x] = 0]]
      s2 == [set_val(s1, x, 0, FREE) EXCEPT !.free_list = x]
  IN [s2 EXCEPT !.size_ = (@ - 1) % Pow2(W)]

\* erase(x): destroy, memset(&e, 0, sizeof(T)), put_on_free_list, --size_
erase(s, x) ==
  LET s1 == [s EXCEPT !.mem = [@ EXCEPT ![x] = 0]]
      s2 == put_on_free_list(s1, x)
  IN [s2 EXCEPT !.size_ = (@ - 1) % Pow2(W)]

\* erase(x) whose check only tests the bounds of x, not the type of the element
erase_checked_bounds_only(s, x) ==
  IF index_ok(s, x)
  THEN [cc |-> erase(s, x), ok |-> TRUE]
  ELSE [cc |-> s, ok |-> FALSE]

\* erase(x) in a build with assertions: CGAL_precondition(type(x) == USED),
\* where type(x) goes through operator[] and its assertion, comes first; when
\* it fails (ok = FALSE) the process aborts and nothing else has been done.
erase_checked(s, x) ==
  IF index_ok(s, x) /\ type(s, x) = USED
  THEN [cc |-> erase(s, x), ok |-> TRUE]
  ELSE [cc |-> s, ok |-> FALSE]

\* clear(): destroy the used elements, free(all_items), all_items = NULL, init()
clear(s, pol, p, g) ==
  init([s EXCEPT !.all_items = NULL, !.mem = << >>], pol, p, g)

\* reserve(n): returns at once when capacity_ >= n; the rest of the body is
\* commented out in the source, so nothing happens otherwise either.
reserve(s, n) == IF s.capacity_ >= n THEN s ELSE s

empty(s) == s.size_ = 0

\* allocate_new_block() when malloc/realloc returns NULL: capacity_ has been
\* increased, all_items is NULL, and the first put_on_free_list reaches
\* operator[], whose assertion all_items!=NULL fails (without assertions the
\* write goes through the null pointer): the process dies in this state.
allocate_new_block_failed(s) ==
  LET s1 == [s EXCEPT !.capacity_ = @ + s.block_size]
  IN [s1 EXCEPT !.all_items = NULL]

\* ------------------------------------------------------------- iterator
\* CC_iterator_with_index: increment() steps to the next used element or to
\* capacity_; begin() is iterator(this, 0, 0), end() is iterator(this, capacity_).
RECURSIVE skip_unused(_, _)
skip_unused(s, i) ==
  IF i < s.capacity_ /\ ~is_used(s, i) THEN skip_unused(s, i + 1) ELSE i

increment(s, i) == skip_unused(s, i + 1)

begin(s) == IF is_used(s, 0) THEN 0 ELSE increment(s, 0)
end(s) == s.capacity_

\* the positions visited by  for (it = begin(); it != end(); ++it)
RECURSIVE visit(_, _)
visit(s, i) == IF i = end(s) THEN << >> ELSE << i >> \o visit(s, increment(s, i))

Traversal(s) == visit(s, begin(s))

\* ---------------------------------------------------- addresses, queries
\* &all_items[i], in units of sizeof(T) as pointer arithmetic on T* counts
address_of(s, i) == s.all_items + i

\* compute_index with an inclusive upper bound on the buffer range
compute_index_inclusive(s, value) ==
  IF value > s.all_items /\ value <= s.all_items + s.capacity_
  THEN value - s.all_items
  ELSE 0

compute_index(s, value) ==
  IF value >= s.all_items /\ value < s.all_items + s.capacity_
  THEN value - s.all_items
  ELSE 0

index_to(s, value) == value
iterator_to(s, value) == compute_index(s, value)

\* owns(cit) for the iterator at position i, 0 <= i <= capacity_
owns(s, i) ==
  IF i = end(s) THEN TRUE
  ELSE LET c == address_of(s, i)
       IN IF c >= s.all_items /\ c < s.all_items + s.capacity_
          THEN type(s, i) = USED
          ELSE FALSE

owns_dereferencable(s, i) == i # end(s) /\ owns(s, i)

\* ----------------------------------------------------------------- copy
\* the fields of an object before its constructor has run
Uninit ==
  [ capacity_ |-> 0, size_ |-> 0, block_size |-> 0, free_list |-> 0,
    all_items |-> NULL, mem |-> << >> ]

\* std::copy(c.begin(), c.end(), CGAL::inserter(*this))
RECURSIVE copy_from(_, _, _, _, _, _)
copy_from(d, c, i, pol, p, g) ==
  IF i = end(c) THEN d
  ELSE copy_from(insert(d, pol, at(c, i), p, g).cc, c, increment(c, i), pol, p, g)

\* Compact_container_with_index_2(const Compact_container_with_index_2 &c);
\* operator= builds this copy and swaps it in.
copy_constructor(c, pol, p, g) ==
  LET d0 == [init(Uninit, pol, p, g) EXCEPT !.block_size = c.block_size]
  IN copy_from(d0, c, begin(c), pol, p, g)

\* the values met by the traversal of s, in order
RECURSIVE values_from(_, _)
values_from(s, i) ==
  IF i = end(s) THEN << >> ELSE << at(s, i) >> \o values_from(s, increment(s, i))

IterationValues(s) == values_from(s, begin(s))

\* -------------------------------------------------------------- actions
Commit(s) ==
  /\ capacity_' = s.capacity_
  /\ size_' = s.size_
  /\ block_size' = s.block_size
  /\ free_list' = s.free_list
  /\ all_items' = s.all_items
  /\ mem' = s.mem

\* what the history keeps of the state before a call, and of the call before
\* it (only an erase is remembered)
Snapshot(s, handles) ==
  [ capacity_ |-> s.capacity_, size_ |-> s.size_, block_size |-> s.block_size,
    free_list |-> s.free_list, all_items |-> s.all_items, live |-> handles ]
Pre == Snapshot(Self, DOMAIN live)
Prev ==
  IF last.op = "erase"
  THEN [op |-> "erase", h |-> last.h, size_ |-> last.pre.size_]
  ELSE [op |-> "other", h |-> 0, size_ |-> 0]

Init ==
  \E pol \in Policies, p \in BaseAddrs, g \in Garbage :
    LET s == init(Uninit, pol, p, g) IN
    /\ policy = pol
    /\ capacity_ = s.capacity_
    /\ size_ = s.size_
    /\ block_size = s.block_size
    /\ free_list = s.free_list
    /\ all_items = s.all_items
    /\ mem = s.mem
    /\ pc = "ready"
    /\ live = << >>
    /\ hist = << >>
    /\ epoch = "constructed"
    /\ last = [ op |-> "init", h |-> 0, v |-> 0, n |-> 0, grew |-> FALSE,
                pre |-> Snapshot(s, {}),
                prev |-> [op |-> "other", h |-> 0, size_ |-> 0] ]

\* the choices of an allocation: none is made when the free list is not empty
Alloc(p, g) ==
  IF free_list = 0
  THEN capacity_ + block_size <= MaxCapacity
  ELSE p = all_items /\ g = 0

Issue(r, t, op) ==
  /\ Commit(r.cc)
  /\ live' = [h \in (DOMAIN live) \cup {r.ret} |-> IF h = r.ret THEN t ELSE live[h]]
  /\ hist' = IF epoch = "erased" THEN hist ELSE Append(hist, r.ret)
  /\ last' = [ op |-> op, h |-> r.ret, v |-> t, n |-> 0, grew |-> free_list = 0,
               pre |-> Pre, prev |-> Prev ]
  /\ UNCHANGED << policy, pc, epoch >>

Insert ==
  /\ pc = "ready"
  /\ \E t \in Values, p \in BaseAddrs, g \in Garbage :
       /\ Alloc(p, g)
       /\ Issue(insert(Self, policy, t, p, g), t, "insert")

Emplace ==
  /\ pc = "ready"
  /\ \E t \in Values, p \in BaseAddrs, g \in Garbage :
       /\ Alloc(p, g)
       /\ Issue(emplace(Self, policy, t, p, g), t, "emplace")

\* erase is called on handles that are currently live only
Erase ==
  /\ pc = "ready"
  /\ \E x \in DOMAIN live :
       /\ Commit(erase(Self, x))
       /\ live' = [h \in (DOMAIN live) \ {x} |-> live[h]]
       /\ hist' = << >>
       /\ epoch' = "erased"
       /\ last' = [ op |-> "erase", h |-> x, v |-> 0, n |-> 0, grew |-> FALSE,
                    pre |-> Pre, prev |-> Prev ]
       /\ UNCHANGED << policy, pc >>

Clear ==
  /\ pc = "ready"
  /\ \E p \in BaseAddrs, g \in Garbage :
       /\ Commit(clear(Self, policy, p, g))
       /\ live' = << >>
       /\ hist' = << >>
       /\ epoch' = "cleared"
       /\ last' = [ op |-> "clear", h |-> 0, v |-> 0, n |-> 0, grew |-> FALSE,
                    pre |-> Pre, prev |-> Prev ]
       /\ UNCHANGED << policy, pc >>

Reserve ==
  /\ pc = "ready"
  /\ \E n \in (capacity_ - 1)..(capacity_ + MaxExtra) :
       /\ Commit(reserve(Self, n))
       /\ last' = [ op |-> "reserve", h |-> 0, v |-> 0, n |-> n, grew |-> FALSE,
                    pre |-> Pre, prev |-> Prev ]
       /\ UNCHANGED << policy, pc, live, hist, epoch >>

\* insert when the free list is empty and malloc/realloc returns NULL
InsertAllocFails ==
  /\ pc = "ready"
  /\ free_list = 0
  /\ \E t \in Values :
       /\ Commit([allocate_new_block_failed(Self) EXCEPT !.mem = mem])
       /\ pc' = "aborted"
       /\ last' = [ op |-> "insert", h |-> 0, v |-> t, n |-> 0, grew |-> TRUE,
                    pre |-> Pre, prev |-> Prev ]
       /\ UNCHANGED << policy, live, hist, epoch >>

\* erase(x) in a build with assertions, for any x in [lo, capacity_]
EraseFrom(lo) ==
  /\ pc = "ready"
  /\ \E x \in lo..capacity_ :
       LET r == erase_checked(Self, x) IN
       /\ Commit(r.cc)
       /\ pc' = IF r.ok THEN "ready" ELSE "aborted"
       /\ live' = IF r.ok THEN [h \in (DOMAIN live) \ {x} |-> live[h]] ELSE live
       /\ hist' = IF r.ok THEN << >> ELSE hist
       /\ epoch' = IF r.ok THEN "erased" ELSE epoch
       /\ last' = [ op |-> "erase", h |-> x, v |-> 0, n |-> 0, grew |-> FALSE,
                    pre |-> Pre, prev |-> Prev ]
       /\ UNCHANGED policy

\* erase called with any non-null handle value, live, stale or out of range
EraseHandle == EraseFrom(1)

\* erase called with any index, the null handle 0 included
EraseAny == EraseFrom(0)

\* d = c : the variables describe d afterwards, the history keeps what the
\* traversal of c gave
CopyAssign ==
  /\ pc = "ready"
  /\ \E p \in BaseAddrs, g \in Garbage :
       LET d == copy_constructor(Self, policy, p, g) IN
       /\ d.capacity_ <= MaxCapacity
       /\ Commit(d)
       /\ pc' = "copied"
       /\ last' = [ op |-> "copy", h |-> 0, v |-> 0, n |-> 0, grew |-> FALSE,
                    pre |-> Pre, prev |-> Prev, seq |-> IterationValues(Self) ]
       /\ UNCHANGED << policy, live, hist, epoch >>

Next == Insert \/ Emplace \/ Erase \/ Clear \/ Reserve

Spec == Init /\ [][Next]_vars

\* the same container when the allocator may run out of memory
NextOOM == Insert \/ Emplace \/ Erase \/ Clear \/ Reserve \/ InsertAllocFails

SpecOOM == Init /\ [][NextOOM]_vars

\* the container in a build with assertions, erase being called with any
\* non-null handle value
NextStale == Insert \/ Emplace \/ EraseHandle \/ Clear \/ Reserve

SpecStale == Init /\ [][NextStale]_vars

\* the same, erase being called with the null handle 0 as well
NextDebug == Insert \/ Emplace \/ EraseAny \/ Clear \/ Reserve

SpecDebug == Init /\ [][NextDebug]_vars

\* the container and its copy
NextCopy == Insert \/ Emplace \/ Erase \/ Clear \/ Reserve \/ CopyAssign

SpecCopy == Init /\ [][NextCopy]_vars

\* ------------------------------------------------- the tag word by itself
\* A buffer of one element holding any word; set_val and static_set_type are
\* applied to it with every index of W-1 bits and both types.
InitTag ==
  \E e \in Word :
    /\ policy = [first |-> 1, incr |-> 0]
    /\ capacity_ = 1
    /\ size_ = 0
    /\ block_size = 1
    /\ free_list = 0
    /\ all_items \in BaseAddrs
    /\ mem = [i \in {0} |-> e]
    /\ pc = "ready"
    /\ live = << >>
    /\ hist = << >>
    /\ epoch = "constructed"
    /\ last = [ op |-> "init", v |-> 0, t |-> USED, e |-> e ]

SetVal ==
  \E v \in 0..(Pow2(nbbits_size_type_m1) - 1), t \in {USED, FREE} :
    /\ mem' = set_val(Self, 0, v, t).mem
    /\ last' = [ op |-> "set_val", v |-> v, t |-> t, e |-> at(Self, 0) ]
    /\ UNCHANGED << policy, capacity_, size_, block_size, free_list, all_items,
                    pc, live, hist, epoch >>

SetType ==
  \E t \in {USED, FREE} :
    /\ mem' = [mem EXCEPT ![0] = static_set_type(at(Self, 0), t)]
    /\ last' = [ op |-> "set_type", v |-> 0, t |-> t, e |-> at(Self, 0) ]
    /\ UNCHANGED << policy, capacity_, size_, block_size, free_list, all_items,
                    pc, live, hist, epoch >>

NextTag == SetVal \/ SetType

SpecTag == InitTag /\ [][NextTag]_vars

TypeOK ==
  /\ capacity_ \in 1..MaxCapacity
  /\ size_ \in 0..MaxCapacity
  /\ free_list \in 0..(capacity_ - 1)
  /\ DOMAIN mem = 0..(capacity_ - 1)
  /\ \A i \in DOMAIN mem : mem[i] \in Word

\* ------------------------------------------------------------ properties
Issued(op) == op \in {"insert", "emplace"}
Handles == DOMAIN live

\* C1: a handle h returned by insert(v) resolves to v, (*this)[h] == v, right
\* after the insert and after every later call until erase(h), also when a
\* later insert grows the buffer with realloc.
C1_HandleStability ==
  pc = "ready" =>
    \A h \in Handles : index_ok(Self, h) /\ at(Self, h) = live[h]

\* an insert has just grown and moved the buffer while an older handle holding
\* a non-zero value is still live
C1_Witness ==
  /\ last.op = "insert" /\ last.grew
  /\ all_items # last.pre.all_items
  /\ \E h \in last.pre.live : h \in Handles /\ live[h] # 0 /\ h # last.h

\* C2: the handle returned by insert/emplace is never 0 and never a handle
\* that was live just before the call; n inserts without erase return n
\* pairwise distinct non-zero handles.
C2_NoCollision ==
  /\ Issued(last.op) => last.h # 0 /\ last.h \notin last.pre.live
  /\ epoch # "erased" =>
       \A i, j \in 1..Len(hist) : hist[i] # 0 /\ (i # j => hist[i] # hist[j])

\* an emplace has returned a handle while two others were live, after an erase
C2_Witness ==
  /\ last.op = "emplace"
  /\ epoch = "erased"
  /\ Cardinality(last.pre.live) >= 2

\* C3: on a freshly constructed or freshly cleared container, with no erase,
\* the k-th insert returns k, across block boundaries too.
C3_SequentialIssue ==
  epoch \in {"constructed", "cleared"} =>
    \A k \in 1..Len(hist) : hist[k] = k

\* three handles issued with no erase, the last one from a block added by
\* allocate_new_block
C3_Witness ==
  /\ epoch = "constructed"
  /\ Len(hist) >= 3
  /\ Issued(last.op) /\ last.grew
  /\ capacity_ > policy.first

\* C4: erase(h) on a live handle immediately followed by insert(v) returns h,
\* does not grow the buffer, leaves v at h and size() as before the erase.
C4_FreeListReuse ==
  (Issued(last.op) /\ last.prev.op = "erase") =>
    /\ last.h = last.prev.h
    /\ ~last.grew
    /\ capacity_ = last.pre.capacity_
    /\ all_items = last.pre.all_items
    /\ at(Self, last.prev.h) = last.v
    /\ size_ = last.prev.size_

\* an insert right after an erase, the free list holding other elements too
C4_Witness ==
  /\ last.op = "insert" /\ last.prev.op = "erase"
  /\ free_list # 0
  /\ last.v # 0
  /\ size_ >= 2

\* C5: size() is the number of handles returned by insert/emplace and not
\* erased or cleared since (index 0 is not counted); empty() holds exactly
\* when that number is 0.
C5_SizeAccounting ==
  pc = "ready" =>
    /\ size_ = Cardinality(Handles)
    /\ empty(Self) <=> (Handles = {})

\* two live handles left after an erase
C5_Witness ==
  /\ last.op = "erase"
  /\ size_ = 2
  /\ capacity_ > policy.first

\* C6: for every index i in [1, capacity()), is_used(i) holds exactly when i
\* was returned by insert/emplace and not erased since; the other indices are
\* FREE.
C6_TagAgreesWithHistory ==
  pc = "ready" =>
    \A i \in 1..(capacity_ - 1) :
      /\ is_used(Self, i) <=> (i \in Handles)
      /\ (i \notin Handles) <=> (type(Self, i) = FREE)

\* live and free indices interleaved: a live handle above an erased one
C6_Witness ==
  /\ epoch = "erased"
  /\ \E i, j \in 1..(capacity_ - 1) :
       i < j /\ i \notin Handles /\ j \in Handles /\ live[j] # 0

\* the buffer of a newly constructed container
FreshMem(first) ==
  [i \in 0..(first - 1) |->
     IF i = 0 THEN DefaultT
     ELSE static_set_val(IF i + 1 < first THEN i + 1 ELSE 0, FREE)]

\* C7: after clear(), size() is 0 and capacity(), the free-list head, the
\* next growth increment and the buffer are those of a newly constructed
\* container, index 0 is reserved again, and the inserts that follow return
\* 1, 2, 3, ...
C7_ClearResets ==
  /\ last.op = "clear" =>
       /\ size_ = 0
       /\ capacity_ = policy.first
       /\ free_list = (IF policy.first > 1 THEN 1 ELSE 0)
       /\ block_size = policy.first + policy.incr
       /\ all_items # NULL
       /\ mem = FreshMem(policy.first)
       /\ is_used(Self, 0)
       /\ Handles = {}
  /\ epoch = "cleared" =>
       /\ Len(hist) = size_
       /\ \A k \in 1..Len(hist) : hist[k] = k /\ hist[k] \in Handles

\* clear() called on a container that had grown, had a larger block_size and
\* held live elements
C7_Witness ==
  /\ last.op = "clear"
  /\ last.pre.capacity_ > policy.first
  /\ last.pre.block_size > policy.first
  /\ last.pre.size_ >= 2

\* the indices on the free list, from the head, at most n of them
RECURSIVE free_chain(_, _, _)
free_chain(s, i, n) ==
  IF i = 0 \/ n = 0 \/ i \notin DOMAIN s.mem THEN {}
  ELSE {i} \cup free_chain(s, get_val(s, i), n - 1)

\* C8: after reserve(n), capacity() >= n, size() and the value at every live
\* handle are unchanged, and every newly committed index is FREE and on the
\* free list.
C8_ReserveGuarantees ==
  last.op = "reserve" =>
    /\ capacity_ >= last.n
    /\ size_ = last.pre.size_
    /\ \A h \in Handles : at(Self, h) = live[h]
    /\ \A i \in last.pre.capacity_..(capacity_ - 1) :
         /\ type(Self, i) = FREE
         /\ i \in free_chain(Self, free_list, capacity_)

\* C9: when the malloc/realloc of allocate_new_block fails during an insert,
\* capacity(), size(), the free-list head, the buffer pointer and the value of
\* every live element are what they were before the insert.
C9_AllocFailureKeepsState ==
  pc = "aborted" =>
    /\ capacity_ = last.pre.capacity_
    /\ size_ = last.pre.size_
    /\ free_list = last.pre.free_list
    /\ all_items = last.pre.all_items
    /\ \A h \in Handles : index_ok(Self, h) /\ at(Self, h) = live[h]

IsAscending(q) == \A i, j \in 1..Len(q) : i < j => q[i] < q[j]

C11_IterationVisitsLive ==
  pc = "ready" =>
    LET tr == Traversal(Self)
    IN /\ { tr[k] : k \in 1..Len(tr) } = Handles
       /\ IsAscending(tr)
       /\ Len(tr) = size_

\* C14: for a position p in [0, capacity()], owns(p) holds exactly when p is
\* end() or designates a live element issued by insert/emplace, and
\* owns_dereferencable(p) exactly when p designates such an element.
C14_Containment ==
  pc = "ready" =>
    \A i \in 0..capacity_ :
      /\ owns(Self, i) <=> (i = end(Self) \/ i \in Handles)
      /\ owns_dereferencable(Self, i) <=> (i \in Handles)

\* the indices met by following the next links from index i, for at most n
\* links (the walk stops at the terminator 0)
RECURSIVE free_seq(_, _, _)
free_seq(s, i, n) ==
  IF i = 0 \/ n = 0 THEN << >>
  ELSE << i >> \o free_seq(s, get_val(s, i), n - 1)

FreeList == free_seq(Self, free_list, capacity_ + 1)
FreeIndices == { i \in 1..(capacity_ - 1) : type(Self, i) = FREE }

\* C15: at every operation boundary the walk from the free-list head visits
\* every FREE index of [1, capacity()) exactly once, no USED index, never
\* index 0, has no cycle and ends at the terminator 0.
C15_FreeListWellFormed ==
  pc = "ready" =>
    /\ Len(FreeList) <= capacity_ - 1
    /\ \A i, j \in 1..Len(FreeList) : i # j => FreeList[i] # FreeList[j]
    /\ { FreeList[k] : k \in 1..Len(FreeList) } = FreeIndices
    /\ \A k \in 1..Len(FreeList) :
         /\ FreeList[k] # 0
         /\ ~is_used(Self, FreeList[k])
         /\ FreeList[k] \notin Handles

\* a free list of three elements whose order is not the index order, after
\* erases and a growth
C15_Witness ==
  /\ epoch = "erased"
  /\ Len(FreeList) >= 3
  /\ FreeList[1] > FreeList[2]
  /\ capacity_ > policy.first

\* C19: capacity() == size() + (number of indices on the free list) + 1, so
\* capacity() >= size() + 1; capacity() does not decrease under
\* insert/emplace/erase; a newly constructed container has size() == 0 and
\* capacity() == first_block_size.
C19_SlotConservation ==
  pc = "ready" =>
    /\ capacity_ = size_ + Len(FreeList) + 1
    /\ capacity_ >= size_ + 1
    /\ (Issued(last.op) \/ last.op = "erase") => capacity_ >= last.pre.capacity_
    /\ last.op = "init" => (size_ = 0 /\ capacity_ = policy.first)

\* live and free elements together after a growth and an erase
C19_Witness ==
  /\ last.op = "erase"
  /\ size_ >= 2
  /\ Len(FreeList) >= 2
  /\ capacity_ > policy.first

\* addresses that are not those of elements of the buffer
Outside(s) ==
  { s.all_items - 1, s.all_items + s.capacity_, NULL } \cup
  { a + k : a \in BaseAddrs \ {s.all_items}, k \in 0..s.capacity_ }

\* C20: compute_index(&(*this)[i]) == i for every i in [1, capacity()), so
\* iterator_to((*this)[h]) is the position index_to(h) for every live h; for
\* an address outside [all_items, all_items + capacity()) compute_index is 0.
C20_AddressRoundTrip ==
  pc = "ready" =>
    /\ \A i \in 1..(capacity_ - 1) :
         compute_index(Self, address_of(Self, i)) = i
    /\ \A h \in Handles :
         iterator_to(Self, address_of(Self, h)) = index_to(Self, h)
    /\ \A a \in Outside(Self) : compute_index(Self, a) = 0

\* a buffer that realloc has moved, with live elements up to the last index
C20_Witness ==
  /\ Issued(last.op) /\ last.grew
  /\ all_items # last.pre.all_items
  /\ capacity_ - 1 \in Handles
  /\ size_ >= 3

\* C16: insert/emplace calls allocate_new_block exactly when the free list
\* is empty on entry.  Otherwise capacity() and block_size are unchanged, the
\* destination is the free-list head and the next index stored there becomes
\* the head.  When it grows, capacity() increases by exactly block_size and
\* the values at the live handles are kept.
C16_InsertGrowsWhenNeeded ==
  [][ (Issued(last'.op) /\ last' # last /\ pc' = "ready") =>
        /\ (capacity_' # capacity_) <=> (free_list = 0)
        /\ free_list # 0 =>
             /\ capacity_' = capacity_
             /\ block_size' = block_size
             /\ all_items' = all_items
             /\ last'.h = free_list
             /\ free_list' = static_get_val(mem[free_list])
             /\ \A i \in DOMAIN mem : i # free_list => mem'[i] = mem[i]
        /\ free_list = 0 =>
             /\ capacity_' = capacity_ + block_size
             /\ last'.h = capacity_
             /\ \A h \in Handles : mem'[h] = mem[h] /\ mem'[h] = live'[h]
        /\ mem'[last'.h] = last'.v
        /\ size_' = size_ + 1
    ]_vars

\* an emplace that found the free list empty while two handles were live
C16_Witness ==
  /\ last.op = "emplace" /\ last.pre.free_list = 0
  /\ Cardinality(last.pre.live) >= 2
  /\ capacity_ > last.pre.capacity_

\* C17: erase(h) on a live handle decrements size() by 1, makes h the
\* free-list head with the previous head as its next index, and leaves
\* capacity(), block_size, every other element and the rest of the free list
\* unchanged.
C17_EraseFrame ==
  [][ (last'.op = "erase" /\ last' # last /\ pc' = "ready") =>
        /\ size_' = size_ - 1
        /\ free_list' = last'.h
        /\ static_type(mem'[last'.h]) = FREE
        /\ static_get_val(mem'[last'.h]) = free_list
        /\ capacity_' = capacity_
        /\ block_size' = block_size
        /\ all_items' = all_items
        /\ DOMAIN mem' = DOMAIN mem
        /\ \A i \in DOMAIN mem : i # last'.h => mem'[i] = mem[i]
        /\ \A h \in Handles \ {last'.h} : h \in DOMAIN live' /\ live'[h] = live[h]
    ]_vars

\* an erase while the free list was not empty and other handles stay live
C17_Witness ==
  /\ last.op = "erase"
  /\ last.pre.free_list # 0
  /\ size_ >= 1
  /\ get_val(Self, free_list) = last.pre.free_list

\* an index erase must not be given: beyond the buffer, tagged FREE, or above
\* 0 and not issued (or erased since)
Stale(x) ==
  \/ x >= capacity_
  \/ type(Self, x) = FREE
  \/ (x >= 1 /\ x \notin Handles)

\* C12: erase(x) with x >= capacity() or x designating a FREE element (such
\* as a handle already erased and not reissued) fails the check made at the
\* start of erase: nothing is destroyed, the free list and size() are as
\* before.
C12_StaleEraseCaught ==
  [][ (last'.op = "erase" /\ last' # last /\ Stale(last'.h)) =>
        /\ pc' = "aborted"
        /\ UNCHANGED << capacity_, size_, block_size, free_list, all_items, mem >>
        /\ UNCHANGED live
    ]_vars

\* erase called again on a handle that had been erased, other handles live
C12_Witness ==
  /\ pc = "aborted"
  /\ last.op = "erase"
  /\ last.h \in 1..(capacity_ - 1)
  /\ epoch = "erased"
  /\ size_ >= 1
  /\ free_list = last.h

\* C13: the container made by the copy constructor or operator= has the
\* size() of the original, and its traversal gives the same values in the
\* same order.
C13_CopyPreservesOrder ==
  pc = "copied" =>
    /\ size_ = last.pre.size_
    /\ IterationValues(Self) = last.seq

\* C18: erase(0) fails erase's precondition, so index 0 is never put on the
\* free list and size() never goes below 0.
C18_SentinelNotErasable ==
  /\ (last.op = "erase" /\ last.h = 0) => pc = "aborted"
  /\ type(Self, 0) = USED
  /\ size_ <= capacity_ - 1

\* C21: for every index v of W-1 bits and every type t, after
\* static_set_val(e, v, t), static_get_val(e) == v and static_type(e) == t;
\* static_set_type(e, t) leaves static_get_val(e) unchanged and makes
\* static_type(e) == t, for t = USED and for t = FREE, whatever the type of e
\* was.
C21_TagRoundTrip ==
  /\ last.op = "set_val" =>
       /\ get_val(Self, 0) = last.v
       /\ type(Self, 0) = last.t
  /\ last.op = "set_type" =>
       /\ get_val(Self, 0) = static_get_val(last.e)
       /\ type(Self, 0) = last.t

====
